---- MODULE Spec2Model ----
(***************************************************************************)
(* A model of the ELMS extractor: the in-memory session cache             *)
(* (backend/app.py, SessionState), the request handlers that use it, the   *)
(* roster crawler and the course-code derivation (elms_extractor.py).      *)
(*                                                                         *)
(* Time is counted in abstract units.  SESSION_TTL_SECONDS is 2 units and  *)
(* the per-call network timeout (timeout=30 in the source, 1/60 of the     *)
(* TTL) is 1 unit: the model over-approximates how long a call may take.   *)
(***************************************************************************)
EXTENDS Integers, Sequences, FiniteSets, TLC

VARIABLES
    store,    \* SessionState._store: token -> (expires_at, session_data)
    now,      \* the value time.time() returns
    issued,   \* how many tokens uuid4 has produced
    ghost,    \* history of the cache (not program state)
    lastOp,   \* the last cache operation (not program state)
    lk,       \* SessionState._lock: 0 when free, else the thread holding it
    th,       \* per thread: its position inside a SessionState method
    req,      \* per request: its position inside a request handler
    clients,  \* the tokens api_login has handed to callers
    answer,   \* the request whose handler returned in the last step
    crawl,    \* one run of extract_course_data
    dc        \* one call of _derive_course_code

vars == <<store, now, issued, ghost, lastOp, lk, th, req, clients, answer, crawl, dc>>
notLockVars == <<ghost, lastOp, req, clients, answer, crawl, dc>>

(* ---------------------------------------------------------------- bounds *)
MaxTokens == 2
MaxTime == 5
MaxLag == 1

(* ------------------------------------------------------------- constants *)
SESSION_TTL_SECONDS == 2

Tokens == 1..MaxTokens
(* login builds a new requests.Session for every call: the n-th session.    *)
NewSession(n) == n + 1
NoEntry == [expires_at |-> -1, session_data |-> 0]

(* A time.time() read taken before the lock is acquired may be older than  *)
(* the time at which the critical section runs.                            *)
StaleReads(t) == {t0 \in 0..t : t - t0 <= MaxLag}

(* ------------------------------------------------ SessionState (pure part) *)
EntryOf(s, token) == IF token \in DOMAIN s THEN s[token] ELSE NoEntry

Without(s, token) == [k \in (DOMAIN s) \ {token} |-> s[k]]

uuid4_reuse == CHOOSE k \in Tokens : k \notin DOMAIN store /\ \A j \in Tokens : j \notin DOMAIN store => k <= j
uuid4 == issued + 1

create(s, token, expires_at, session_data) ==
    [k \in (DOMAIN s) \cup {token} |->
        IF k = token THEN [expires_at |-> expires_at, session_data |-> session_data]
        ELSE s[k]]

get_result(s, token, t) ==
    IF token \notin DOMAIN s THEN "invalid"
    ELSE IF t > s[token].expires_at THEN "expired"
    ELSE "ok"

get_keeps_expired(s, token, t) == s
get_evicts_at_expiry(s, token, t) ==
    IF token \in DOMAIN s /\ t >= s[token].expires_at THEN Without(s, token) ELSE s
get(s, token, t) ==
    IF token \in DOMAIN s /\ t > s[token].expires_at THEN Without(s, token) ELSE s

touch_drops_session(s, token, t) ==
    IF token \in DOMAIN s
    THEN [s EXCEPT ![token] = [expires_at |-> t + SESSION_TTL_SECONDS, session_data |-> 0]]
    ELSE s
touch_keeps_expiry(s, token, t) == s
touch(s, token, t) ==
    IF token \in DOMAIN s
    THEN [s EXCEPT ![token] = [expires_at |-> t + SESSION_TTL_SECONDS,
                               session_data |-> s[token].session_data]]
    ELSE s

remove_forgotten(s, token) == s
remove(s, token) == Without(s, token)

cleanup_inclusive(s, t) == [k \in {j \in DOMAIN s : ~(s[j].expires_at <= t)} |-> s[k]]
cleanup(s, t) == [k \in {j \in DOMAIN s : ~(s[j].expires_at < t)} |-> s[k]]

(* ------------------------------------------------- history (not program) *)
(* how[k]: which operation took token k's entry out of the store ("no"     *)
(* while it never left); early: tokens whose entry an operation other than *)
(* remove deleted at a time <= its expires_at; origExp[k]: the expires_at  *)
(* that create stored for k (kept while the entry is in the store);        *)
(* orig[k]: the session that create was given for k.                       *)
GhostInit ==
    [how |-> [k \in Tokens |-> "no"], early |-> {}, origExp |-> [k \in Tokens |-> -1],
     orig |-> [k \in Tokens |-> 0]]

Deleted(s, s2) == (DOMAIN s) \ (DOMAIN s2)

Note(g, s, s2, by, t) ==
    [g EXCEPT !.how = [k \in Tokens |-> IF k \in Deleted(s, s2) THEN by ELSE @[k]],
              !.early = IF by = "remove" THEN @
                        ELSE @ \cup {k \in Deleted(s, s2) : t <= s[k].expires_at},
              !.origExp = [k \in Tokens |-> IF k \in Deleted(s, s2) THEN -1 ELSE @[k]]]

(* lastOp: the last cache operation, its argument, what it answered and    *)
(* the store it found (history, not program state).                        *)
NoOp(name) == [op |-> name, token |-> 0, res |-> "none", data |-> 0,
               pre |-> [k \in {} |-> NoEntry]]
Op(name, token, res, data) == [op |-> name, token |-> token, res |-> res, data |-> data,
                               pre |-> store]

(* -------------------------------------------------- SessionState actions *)
CacheInit ==
    /\ store = [k \in {} |-> NoEntry]
    /\ now = 0
    /\ issued = 0
    /\ ghost = GhostInit
    /\ lastOp = NoOp("init")
    /\ lk = 0 /\ th = <<>> /\ req = <<>> /\ clients = {} /\ answer = <<>> /\ crawl = <<>> /\ dc = <<>>

Create ==
    /\ issued < MaxTokens
    /\ \E t0 \in StaleReads(now) :
         LET token == uuid4
             session_data == NewSession(issued)
             expires_at == t0 + SESSION_TTL_SECONDS
         IN /\ store' = create(store, token, expires_at, session_data)
            /\ issued' = issued + 1
            /\ ghost' = [Note(ghost, store, store', "create", now)
                           EXCEPT !.origExp[token] = expires_at,
                                  !.orig[token] = session_data]
            /\ lastOp' = Op("create", token, "none", 0)
    /\ UNCHANGED <<now, lk, th, req, clients, answer, crawl, dc>>

Get ==
    /\ \E token \in Tokens :
         LET res == get_result(store, token, now)
         IN /\ store' = get(store, token, now)
            /\ ghost' = Note(ghost, store, store', "get", now)
            /\ lastOp' = Op("get", token, res,
                             IF res = "ok" THEN store[token].session_data ELSE 0)
    /\ UNCHANGED <<now, issued, lk, th, req, clients, answer, crawl, dc>>

Touch ==
    /\ \E token \in Tokens :
         /\ store' = touch(store, token, now)
         /\ ghost' = Note(ghost, store, store', "touch", now)
         /\ lastOp' = Op("touch", token, "none", 0)
    /\ UNCHANGED <<now, issued, lk, th, req, clients, answer, crawl, dc>>

Remove ==
    /\ \E token \in Tokens :
         /\ store' = remove(store, token)
         /\ ghost' = Note(ghost, store, store', "remove", now)
         /\ lastOp' = Op("remove", token, "none", 0)
    /\ UNCHANGED <<now, issued, lk, th, req, clients, answer, crawl, dc>>

Cleanup ==
    /\ \E t0 \in StaleReads(now) :
         /\ store' = cleanup(store, t0)
         /\ ghost' = Note(ghost, store, store', "cleanup", now)
         /\ lastOp' = Op("cleanup", 0, "none", 0)
    /\ UNCHANGED <<now, issued, lk, th, req, clients, answer, crawl, dc>>

Tick ==
    /\ now < MaxTime
    /\ now' = now + 1
    /\ lastOp' = NoOp("tick")
    /\ UNCHANGED <<store, issued, ghost, lk, th, req, clients, answer, crawl, dc>>

CacheNext == Create \/ Get \/ Touch \/ Remove \/ Cleanup \/ Tick

SpecCache == CacheInit /\ [][CacheNext]_vars
(* ------------------------------------------------ claims on SessionState *)
Present(token) == token \in DOMAIN store
PreEntry == EntryOf(lastOp.pre, lastOp.token)
PrePresent == lastOp.token \in DOMAIN lastOp.pre

(* C1: a token that create returned and remove did not take away is        *)
(* answered by get with the session create stored at every time            *)
(* now <= expires_at, whatever create, touch, remove and cleanup did in    *)
(* between: no operation but remove deletes an entry at a time             *)
(* <= its expires_at.  At a time now > expires_at get answers "expired"    *)
(* and deletes the entry, and every later get of that token fails too.     *)
C1_RetrievableUntilExpiry ==
    /\ ghost.early = {}
    /\ \A k \in 1..issued :
         /\ ~Present(k) => ghost.how[k] \in {"get", "cleanup", "remove"}
         /\ Present(k) /\ now <= store[k].expires_at =>
              /\ get_result(store, k, now) = "ok"
              /\ store[k].session_data = ghost.orig[k]
              /\ get(store, k, now) = store
         /\ ghost.how[k] = "get" => ~Present(k) /\ get_result(store, k, now) = "invalid"
    /\ lastOp.op = "get" =>
         /\ lastOp.res = "ok" <=> (PrePresent /\ now <= PreEntry.expires_at)
         /\ lastOp.res = "ok" => lastOp.data = ghost.orig[lastOp.token] /\ store = lastOp.pre
         /\ lastOp.res = "expired" <=> (PrePresent /\ now > PreEntry.expires_at)
         /\ lastOp.res = "expired" => ~Present(lastOp.token)
                                       /\ ghost.how[lastOp.token] = "get"
                                       /\ store = Without(lastOp.pre, lastOp.token)

(* C1 witness: a get has just answered "expired" for a token it deleted,   *)
(* while another token's entry, still within its TTL, is in the store.     *)
C1_Witness ==
    /\ lastOp.op = "get" /\ lastOp.res = "expired"
    /\ \E k \in DOMAIN store : now <= store[k].expires_at

(* C2: touch at time t on a present entry sets its expires_at to t + TTL   *)
(* and leaves its session and every other entry as they were; touch on an  *)
(* absent token changes nothing.  A touched entry is therefore answered by *)
(* get after the expires_at that create gave it, up to t + TTL.            *)
C2_TouchExtends ==
    /\ lastOp.op = "touch" =>
         IF PrePresent
         THEN /\ Present(lastOp.token)
              /\ store[lastOp.token] =
                   [expires_at |-> now + SESSION_TTL_SECONDS,
                    session_data |-> PreEntry.session_data]
              /\ \A k \in DOMAIN lastOp.pre : k # lastOp.token => store[k] = lastOp.pre[k]
              /\ DOMAIN store = DOMAIN lastOp.pre
              /\ \A t \in now..(now + SESSION_TTL_SECONDS) :
                   get_result(store, lastOp.token, t) = "ok"
         ELSE store = lastOp.pre
    /\ lastOp.op = "get" /\ PrePresent /\ ghost.origExp[lastOp.token] < now
         /\ now <= PreEntry.expires_at
         => lastOp.res = "ok" /\ lastOp.data = ghost.orig[lastOp.token]

(* C2 witness: get answers the session at a time after the expires_at that *)
(* create stored, which only a touch can have extended.                    *)
C2_Witness ==
    /\ lastOp.op = "get" /\ lastOp.res = "ok"
    /\ ghost.origExp[lastOp.token] >= 0
    /\ now > ghost.origExp[lastOp.token]
    /\ lastOp.data = ghost.orig[lastOp.token]

(* C3: a token whose entry left the store (by get on expiry, remove or     *)
(* cleanup) never has an entry again and every get of it fails; create     *)
(* issues a token that is neither in the store nor was ever evicted.       *)
C3_NoResurrection ==
    /\ \A k \in Tokens :
         ghost.how[k] # "no" => ~Present(k) /\ get_result(store, k, now) = "invalid"
    /\ DOMAIN store \subseteq 1..issued
    /\ lastOp.op = "create" =>
         /\ ~PrePresent
         /\ ghost.how[lastOp.token] = "no"
         /\ DOMAIN store = DOMAIN lastOp.pre \cup {lastOp.token}
    /\ lastOp.op \in {"touch", "get", "remove", "cleanup"} =>
         DOMAIN store \subseteq DOMAIN lastOp.pre

(* C3 witness: create has just run after an entry was evicted, and a later *)
(* state has a touch of an evicted token.                                  *)
C3_Witness ==
    \/ /\ lastOp.op = "create"
       /\ \E k \in Tokens : ghost.how[k] # "no"
    \/ /\ lastOp.op = "touch"
       /\ ghost.how[lastOp.token] # "no"
(* ======================================================================= *)
(* SessionState under threads: every method body, statement by statement,  *)
(* inside "with self._lock".  Threads 1..NumThreads are request threads    *)
(* calling create, get, touch and remove; the last is _background_cleanup.  *)
(* ======================================================================= *)
NumThreads == 1
LockMaxTokens == 1
LockMaxTime == 3
Threads == 1..(NumThreads + 1)
Background == NumThreads + 1
Idle == [pc |-> "idle", op |-> "none", token |-> 0, t |-> -1, entry |-> NoEntry,
         expired |-> {}, snap |-> [k \in {} |-> NoEntry], exc |-> "none"]

InLock(pc) == pc \in {"create_put", "get_read", "get_check", "get_del", "touch_check",
                      "touch_read", "touch_write", "remove_pop", "cleanup_scan",
                      "cleanup_del", "unlock"}

LockInit ==
    /\ store = [k \in {} |-> NoEntry]
    /\ now = 0
    /\ issued = 0
    /\ lk = 0
    /\ th = [i \in Threads |-> Idle]
    /\ ghost = GhostInit /\ lastOp = NoOp("init")
    /\ req = <<>> /\ clients = {} /\ answer = <<>> /\ crawl = <<>> /\ dc = <<>>

(* "with self._lock": a threading.Lock is taken only while nobody holds it *)
lock_ignored(i) == TRUE
lock_free(i) == lk = 0

(* a request thread enters one of the methods *)
Call(i) ==
    /\ i # Background /\ th[i].pc = "idle"
    /\ \/ /\ issued < LockMaxTokens
          /\ th' = [th EXCEPT ![i] = [Idle EXCEPT !.pc = "create_stamp", !.op = "create"]]
       \/ \E token \in 1..LockMaxTokens, op \in {"get", "touch", "remove"} :
            th' = [th EXCEPT ![i] = [Idle EXCEPT !.pc = "lock", !.op = op, !.token = token]]
    /\ UNCHANGED <<store, now, issued, lk>>
    /\ UNCHANGED notLockVars

(* _background_cleanup: time.sleep returns and cleanup() reads the time *)
cleanup_stamp(i) ==
    /\ i = Background /\ th[i].pc = "idle"
    /\ th' = [th EXCEPT ![i] = [Idle EXCEPT !.pc = "lock", !.op = "cleanup", !.t = now]]
    /\ UNCHANGED <<store, now, issued, lk>>
    /\ UNCHANGED notLockVars

(* create: token = uuid4().hex; expires_at = time.time() + TTL (no lock yet) *)
create_stamp(i) ==
    /\ th[i].pc = "create_stamp"
    /\ issued < LockMaxTokens
    /\ th' = [th EXCEPT ![i].pc = "lock", ![i].token = uuid4,
                        ![i].t = now + SESSION_TTL_SECONDS,
                        ![i].entry = [expires_at |-> -1, session_data |-> NewSession(issued)]]
    /\ issued' = issued + 1
    /\ UNCHANGED <<store, now, lk>>
    /\ UNCHANGED notLockVars

Acquire(i) ==
    /\ th[i].pc = "lock"
    /\ lock_free(i)
    /\ lk' = i
    /\ th' = [th EXCEPT ![i].snap = store,
                        ![i].pc = CASE th[i].op = "create" -> "create_put"
                                    [] th[i].op = "get" -> "get_read"
                                    [] th[i].op = "touch" -> "touch_check"
                                    [] th[i].op = "remove" -> "remove_pop"
                                    [] OTHER -> "cleanup_scan"]
    /\ UNCHANGED <<store, now, issued>>
    /\ UNCHANGED notLockVars

create_put(i) ==
    /\ th[i].pc = "create_put"
    /\ store' = create(store, th[i].token, th[i].t, th[i].entry.session_data)
    /\ th' = [th EXCEPT ![i].pc = "unlock"]
    /\ UNCHANGED <<now, issued, lk>>
    /\ UNCHANGED notLockVars

(* entry = self._store.get(token); if not entry: raise *)
get_read(i) ==
    /\ th[i].pc = "get_read"
    /\ th' = [th EXCEPT ![i].entry = EntryOf(store, th[i].token),
                        ![i].pc = IF th[i].token \in DOMAIN store THEN "get_check" ELSE "unlock",
                        ![i].exc = IF th[i].token \in DOMAIN store THEN "none" ELSE "ElmsLoginError"]
    /\ UNCHANGED <<store, now, issued, lk>>
    /\ UNCHANGED notLockVars

(* if time.time() > expires_at *)
get_check(i) ==
    /\ th[i].pc = "get_check"
    /\ th' = [th EXCEPT ![i].t = now,
                        ![i].pc = IF now > th[i].entry.expires_at THEN "get_del" ELSE "unlock"]
    /\ UNCHANGED <<store, now, issued, lk>>
    /\ UNCHANGED notLockVars

(* del self._store[token]; raise: a del of a missing key is a KeyError *)
get_del(i) ==
    /\ th[i].pc = "get_del"
    /\ store' = Without(store, th[i].token)
    /\ th' = [th EXCEPT ![i].pc = "unlock",
                        ![i].exc = IF th[i].token \in DOMAIN store THEN "ElmsLoginError"
                                   ELSE "KeyError"]
    /\ UNCHANGED <<now, issued, lk>>
    /\ UNCHANGED notLockVars

(* if token in self._store *)
touch_check(i) ==
    /\ th[i].pc = "touch_check"
    /\ th' = [th EXCEPT ![i].pc = IF th[i].token \in DOMAIN store THEN "touch_read" ELSE "unlock"]
    /\ UNCHANGED <<store, now, issued, lk>>
    /\ UNCHANGED notLockVars

(* session = self._store[token][1] *)
touch_read(i) ==
    /\ th[i].pc = "touch_read"
    /\ th' = [th EXCEPT ![i].entry = EntryOf(store, th[i].token),
                        ![i].pc = IF th[i].token \in DOMAIN store THEN "touch_write" ELSE "unlock",
                        ![i].exc = IF th[i].token \in DOMAIN store THEN "none" ELSE "KeyError"]
    /\ UNCHANGED <<store, now, issued, lk>>
    /\ UNCHANGED notLockVars

(* self._store[token] = (time.time() + TTL, session) *)
touch_write(i) ==
    /\ th[i].pc = "touch_write"
    /\ store' = create(store, th[i].token, now + SESSION_TTL_SECONDS, th[i].entry.session_data)
    /\ th' = [th EXCEPT ![i].pc = "unlock", ![i].t = now]
    /\ UNCHANGED <<now, issued, lk>>
    /\ UNCHANGED notLockVars

(* self._store.pop(token, None) *)
remove_pop(i) ==
    /\ th[i].pc = "remove_pop"
    /\ store' = Without(store, th[i].token)
    /\ th' = [th EXCEPT ![i].pc = "unlock"]
    /\ UNCHANGED <<now, issued, lk>>
    /\ UNCHANGED notLockVars

(* expired = [token for token, (expires_at, _) in items if expires_at < now] *)
cleanup_scan(i) ==
    /\ th[i].pc = "cleanup_scan"
    /\ th' = [th EXCEPT ![i].expired = {k \in DOMAIN store : store[k].expires_at < th[i].t},
                        ![i].pc = "cleanup_del"]
    /\ UNCHANGED <<store, now, issued, lk>>
    /\ UNCHANGED notLockVars

(* for token in expired: del self._store[token] *)
cleanup_del(i) ==
    /\ th[i].pc = "cleanup_del"
    /\ IF th[i].expired = {}
       THEN /\ th' = [th EXCEPT ![i].pc = "unlock"]
            /\ UNCHANGED store
       ELSE LET token == CHOOSE k \in th[i].expired : \A j \in th[i].expired : k <= j
            IN /\ store' = Without(store, token)
               /\ th' = [th EXCEPT ![i].expired = @ \ {token},
                                   ![i].pc = IF token \in DOMAIN store THEN "cleanup_del"
                                             ELSE "unlock",
                                   ![i].exc = IF token \in DOMAIN store THEN "none"
                                              ELSE "KeyError"]
    /\ UNCHANGED <<now, issued, lk>>
    /\ UNCHANGED notLockVars

(* leaving the with block releases the lock, also when the body raised *)
Release(i) ==
    /\ th[i].pc = "unlock"
    /\ lk' = 0
    /\ th' = [th EXCEPT ![i] = Idle]
    /\ UNCHANGED <<store, now, issued>>
    /\ UNCHANGED notLockVars

LockTick ==
    /\ now < LockMaxTime
    /\ now' = now + 1
    /\ UNCHANGED <<store, issued, lk, th>>
    /\ UNCHANGED notLockVars

LockNext ==
    \/ \E i \in Threads :
         \/ Call(i) \/ cleanup_stamp(i) \/ create_stamp(i) \/ Acquire(i)
         \/ create_put(i) \/ get_read(i) \/ get_check(i) \/ get_del(i)
         \/ touch_check(i) \/ touch_read(i) \/ touch_write(i) \/ remove_pop(i)
         \/ cleanup_scan(i) \/ cleanup_del(i) \/ Release(i)
    \/ LockTick

SpecLock == LockInit /\ [][LockNext]_vars

(* What the method a thread is in does to the store it found when it took  *)
(* the lock, as one step.                                                  *)
Serial(r) ==
    CASE r.op = "create" -> create(r.snap, r.token, r.t, r.entry.session_data)
      [] r.op = "get" -> IF r.t >= 0 THEN get(r.snap, r.token, r.t) ELSE r.snap
      [] r.op = "touch" -> IF r.t >= 0 THEN touch(r.snap, r.token, r.t) ELSE r.snap
      [] r.op = "remove" -> remove(r.snap, r.token)
      [] OTHER -> cleanup(r.snap, r.t)

NumRequests == 1
AppMaxTokens == 1
AppMaxTime == 3
MaxCourses == 2
NETWORK_TIMEOUT == 1

Requests == 1..NumRequests
Handlers == {"api_login", "api_courses", "api_extract_course", "api_extract_all"}
Outcomes == {"ok", "CourseExtractionError", "Exception"}
Fields == {"absent", "empty", "present"}
AllSites == [get_raises : BOOLEAN, csrf : Fields, post_raises : BOOLEAN,
             dashboard : BOOLEAN, sesskey : Fields]
(* a response the site is never asked for is left at its default *)
Sites == {site \in AllSites :
            /\ site.get_raises => site.csrf = "absent"
            /\ site.csrf # "present" => ~site.post_raises
            /\ (site.csrf # "present" \/ site.post_raises) => ~site.dashboard
            /\ ~site.dashboard => site.sesskey = "absent"}
NoSite == [get_raises |-> FALSE, csrf |-> "absent", post_raises |-> FALSE,
           dashboard |-> FALSE, sesskey |-> "absent"]
NoLogin == [result |-> "none", message |-> "none", posted |-> FALSE]

(* elms_extractor.login: GET the page, find logintoken, POST, look for the  *)
(* marker, find sesskey.  A transport error of GET or POST is not caught.  *)
login_posts_without_token(site) ==
    IF site.get_raises THEN [result |-> "Exception", message |-> "transport", posted |-> FALSE]
    ELSE IF site.post_raises THEN [result |-> "Exception", message |-> "transport", posted |-> TRUE]
    ELSE IF site.csrf # "present"
         THEN [result |-> "ElmsLoginError", message |-> "csrf", posted |-> TRUE]
    ELSE IF ~site.dashboard
         THEN [result |-> "ElmsLoginError", message |-> "credentials", posted |-> TRUE]
    ELSE IF site.sesskey # "present"
         THEN [result |-> "ElmsLoginError", message |-> "sesskey", posted |-> TRUE]
    ELSE [result |-> "ok", message |-> "none", posted |-> TRUE]
login(site) ==
    IF site.get_raises THEN [result |-> "Exception", message |-> "transport", posted |-> FALSE]
    ELSE IF site.csrf # "present"
         THEN [result |-> "ElmsLoginError", message |-> "csrf", posted |-> FALSE]
    ELSE IF site.post_raises THEN [result |-> "Exception", message |-> "transport", posted |-> TRUE]
    ELSE IF ~site.dashboard
         THEN [result |-> "ElmsLoginError", message |-> "credentials", posted |-> TRUE]
    ELSE IF site.sesskey # "present"
         THEN [result |-> "ElmsLoginError", message |-> "sesskey", posted |-> TRUE]
    ELSE [result |-> "ok", message |-> "none", posted |-> TRUE]

Fresh == [pc |-> "idle", handler |-> "none", token |-> 0, session |-> 0, waited |-> 0,
          status |-> 0, site |-> NoSite, login |-> NoLogin, created |-> FALSE,
          authed |-> FALSE, downFail |-> FALSE, touchedExpired |-> FALSE,
          retPresent |-> FALSE, course_ids |-> <<>>, outcomes |-> <<>>,
          archive |-> <<>>, archived |-> FALSE]

Active(r) == req[r].pc # "idle"

(* the handler of request r returns or raises: status is the HTTP status   *)
(* of the answer, s the store at that moment; the thread is free again     *)
Return(r, q, status, s) ==
    /\ req' = [req EXCEPT ![r] = Fresh]
    /\ answer' = [q EXCEPT !.pc = "done", !.status = status, !.waited = 0,
                           !.retPresent = q.token \in DOMAIN s]

(* the handler of request r moves on to its next step *)
Goto(r, q, pc) ==
    /\ req' = [req EXCEPT ![r] = [q EXCEPT !.pc = pc, !.waited = 0]]
    /\ answer' = Fresh

AppInit ==
    /\ store = [k \in {} |-> NoEntry]
    /\ now = 0
    /\ issued = 0
    /\ req = [r \in Requests |-> Fresh]
    /\ clients = {}
    /\ answer = Fresh
    /\ ghost = GhostInit /\ lastOp = NoOp("init")
    /\ lk = 0 /\ th = <<>> /\ crawl = <<>> /\ dc = <<>>

notAppVars == <<ghost, lastOp, lk, th, crawl, dc>>

(* a caller sends a request; it can present a token a login returned, or   *)
(* one that was never issued (0), or no Bearer header at all               *)
Start(r) ==
    /\ req[r].pc = "idle"
    /\ \/ /\ issued < AppMaxTokens
          /\ Goto(r, [Fresh EXCEPT !.handler = "api_login"], "login")
       \/ \E h \in Handlers \ {"api_login"}, token \in clients \cup {0} :
            Goto(r, [Fresh EXCEPT !.handler = h, !.token = token], "header")
       \/ \E h \in Handlers \ {"api_login"} :
            Return(r, [Fresh EXCEPT !.handler = h], 401, store)
    /\ UNCHANGED <<store, now, issued, clients>>
    /\ UNCHANGED notAppVars

(* _get_session_from_header: session_cache.get(token), 401 when it raises *)
header_get(r) ==
    /\ req[r].pc = "header"
    /\ LET q == req[r]
           res == get_result(store, q.token, now)
       IN /\ store' = get(store, q.token, now)
          /\ IF res = "ok"
             THEN Goto(r, [q EXCEPT !.authed = TRUE, !.session = store[q.token].session_data],
                       "header_touch")
             ELSE Return(r, q, 401, store')
    /\ UNCHANGED <<now, issued, clients>>
    /\ UNCHANGED notAppVars

(* _get_session_from_header: session_cache.touch(token), then the handler *)
header_touch(r) ==
    /\ req[r].pc = "header_touch"
    /\ LET q == req[r]
       IN /\ store' = touch(store, q.token, now)
          /\ Goto(r, [q EXCEPT !.touchedExpired = q.token \in DOMAIN store
                                                  /\ now > store[q.token].expires_at],
                  q.handler)
    /\ UNCHANGED <<now, issued, clients>>
    /\ UNCHANGED notAppVars

(* api_login: login(), then session_cache.create *)
api_login(r) ==
    /\ req[r].pc = "login"
    /\ issued < AppMaxTokens
    /\ \E site \in Sites :
         LET q == [req[r] EXCEPT !.site = site, !.login = login(site)]
         IN IF q.login.result = "ok"
            THEN /\ store' = create(store, uuid4, now + SESSION_TTL_SECONDS, NewSession(issued))
                 /\ issued' = issued + 1
                 /\ Goto(r, [q EXCEPT !.token = uuid4, !.created = TRUE,
                                      !.session = NewSession(issued)], "login_courses")
            ELSE /\ Return(r, q, IF q.login.result = "ElmsLoginError" THEN 401 ELSE 500, store)
                 /\ UNCHANGED <<store, issued>>
    /\ UNCHANGED <<now, clients>>
    /\ UNCHANGED notAppVars

(* api_login: get_courses_with_names; on any error remove(token) and 500 *)
api_login_courses(r) ==
    /\ req[r].pc = "login_courses"
    /\ LET q == req[r]
       IN \/ /\ Return(r, q, 200, store)
             /\ clients' = clients \cup {q.token}
             /\ UNCHANGED store
          \/ /\ store' = remove(store, q.token)
             /\ Return(r, [q EXCEPT !.downFail = TRUE], 500, store')
             /\ UNCHANGED clients
    /\ UNCHANGED <<now, issued>>
    /\ UNCHANGED notAppVars

(* api_courses: get_courses_with_names; on any error remove(token) and 500 *)
api_courses(r) ==
    /\ req[r].pc = "api_courses"
    /\ LET q == req[r]
       IN \/ /\ Return(r, q, 200, store)
             /\ UNCHANGED store
          \/ /\ store' = remove(store, q.token)
             /\ Return(r, [q EXCEPT !.downFail = TRUE], 500, store')
    /\ UNCHANGED <<now, issued, clients>>
    /\ UNCHANGED notAppVars

(* api_extract_course: extract_course_data; CourseExtractionError is a 400 *)
(* with the session left in the cache, any other error remove(token), 500  *)
api_extract_course(r) ==
    /\ req[r].pc = "api_extract_course"
    /\ LET q == req[r]
       IN \/ /\ Return(r, [q EXCEPT !.outcomes = <<"ok">>], 200, store)
             /\ UNCHANGED store
          \/ /\ Return(r, [q EXCEPT !.downFail = TRUE,
                                    !.outcomes = <<"CourseExtractionError">>], 400, store)
             /\ UNCHANGED store
          \/ /\ store' = remove(store, q.token)
             /\ Return(r, [q EXCEPT !.downFail = TRUE, !.outcomes = <<"Exception">>], 500, store')
    /\ UNCHANGED <<now, issued, clients>>
    /\ UNCHANGED notAppVars

(* api_extract_all, the loop "for course_id in course_ids" over the        *)
(* outcomes outs[i] of extract_course_data: an "ok" course adds its two    *)
(* files to the archive, a CourseExtractionError is skipped (continue),    *)
(* any other error leaves the loop and the handler uncaught.  The result   *)
(* is the turns taken, the archive so far and whether the loop ended.      *)
RECURSIVE extract_all_loop(_, _, _)
extract_all_loop(course_ids, outs, acc) ==
    LET i == Len(acc.outcomes) + 1
    IN IF i > Len(course_ids) THEN [acc EXCEPT !.finished = TRUE]
       ELSE IF outs[i] = "ok"
            THEN extract_all_loop(course_ids, outs,
                   [acc EXCEPT !.outcomes = Append(@, "ok"),
                               !.archive = @ \o <<<<course_ids[i], "users.csv">>,
                                                  <<course_ids[i], "emails.txt">>>>])
       ELSE IF outs[i] = "CourseExtractionError"
            THEN extract_all_loop(course_ids, outs,
                   [acc EXCEPT !.outcomes = Append(@, "CourseExtractionError")])
       ELSE [acc EXCEPT !.outcomes = Append(@, "Exception")]

(* api_extract_all: get_all_course_ids, on any error remove(token) and     *)
(* 500; then the loop, which touches no shared state, and the answer.  An  *)
(* error that leaves the loop is answered 500 with no remove.              *)
api_extract_all(r) ==
    /\ req[r].pc = "api_extract_all"
    /\ LET q == req[r]
       IN \/ /\ \E n \in 0..MaxCourses : \E outs \in [1..n -> Outcomes] :
                  LET course_ids == [i \in 1..n |-> i]
                      res == extract_all_loop(course_ids, outs,
                               [outcomes |-> <<>>, archive |-> <<>>, finished |-> FALSE])
                  IN Return(r, [q EXCEPT !.course_ids = course_ids,
                                         !.outcomes = res.outcomes,
                                         !.archive = res.archive,
                                         !.archived = res.finished,
                                         !.downFail = \E i \in 1..Len(res.outcomes) :
                                                         res.outcomes[i] # "ok"],
                            IF res.finished THEN 200 ELSE 500, store)
             /\ UNCHANGED store
          \/ /\ store' = remove(store, q.token)
             /\ Return(r, [q EXCEPT !.downFail = TRUE], 500, store')
    /\ UNCHANGED <<now, issued, clients>>
    /\ UNCHANGED notAppVars

(* _background_cleanup: session_cache.cleanup() after a sleep *)
background_cleanup ==
    /\ \E t0 \in StaleReads(now) : store' = cleanup(store, t0)
    /\ answer' = Fresh
    /\ UNCHANGED <<now, issued, req, clients>>
    /\ UNCHANGED notAppVars

(* time passes; a request inside a handler takes its next step before      *)
(* NETWORK_TIMEOUT has passed since its last one                           *)
AppTick ==
    /\ now < AppMaxTime
    /\ \A r \in Requests : Active(r) => req[r].waited < NETWORK_TIMEOUT
    /\ now' = now + 1
    /\ req' = [r \in Requests |-> IF Active(r) THEN [req[r] EXCEPT !.waited = @ + 1] ELSE req[r]]
    /\ answer' = Fresh
    /\ UNCHANGED <<store, issued, clients>>
    /\ UNCHANGED notAppVars

AppNext ==
    \/ \E r \in Requests :
         \/ Start(r) \/ header_get(r) \/ header_touch(r)
         \/ api_login(r) \/ api_login_courses(r) \/ api_courses(r)
         \/ api_extract_course(r) \/ api_extract_all(r)
    \/ background_cleanup
    \/ AppTick

SpecApp == AppInit /\ [][AppNext]_vars
(* ------------------------------------------------ claims on the handlers *)
Answered(h) == answer.pc = "done" /\ answer.handler = h

(* the archive api_extract_all is to return: the two files of every course *)
(* whose extraction was "ok", in the order of course_ids                   *)
RECURSIVE ArchiveOf(_, _)
ArchiveOf(course_ids, outcomes) ==
    IF course_ids = <<>> \/ outcomes = <<>> THEN <<>>
    ELSE (IF Head(outcomes) = "ok"
          THEN <<<<Head(course_ids), "users.csv">>, <<Head(course_ids), "emails.txt">>>>
          ELSE <<>>) \o ArchiveOf(Tail(course_ids), Tail(outcomes))

(* C4: when a handler that took its session from the cache has a           *)
(* downstream call fail (any error, CourseExtractionError and errors in    *)
(* the extract-all loop included), the token's entry is not in the cache   *)
(* when the handler returns.                                               *)
C4_DownstreamFailureEvicts ==
    answer.pc = "done" /\ answer.authed /\ answer.downFail => ~answer.retPresent

(* C5: login raises ElmsLoginError when the login page has no logintoken   *)
(* (and then posts nothing), else when the answer to the POST lacks the    *)
(* marker, else when it has no sesskey; when api_login fails, no entry it  *)
(* created is in the cache as it returns; it hands out a token only with   *)
(* the token's entry in the cache at that moment.                          *)
C5_FailedLoginCachesNothing ==
    Answered("api_login") =>
      LET site == answer.site
          res == answer.login
      IN /\ ~site.get_raises /\ site.csrf # "present" =>
              res.result = "ElmsLoginError" /\ res.message = "csrf" /\ ~res.posted
         /\ ~site.get_raises /\ site.csrf = "present" /\ ~site.post_raises /\ ~site.dashboard =>
              res.result = "ElmsLoginError" /\ res.message = "credentials" /\ res.posted
         /\ ~site.get_raises /\ site.csrf = "present" /\ ~site.post_raises /\ site.dashboard
              /\ site.sesskey # "present" =>
              res.result = "ElmsLoginError" /\ res.message = "sesskey" /\ res.posted
         /\ res.result = "ElmsLoginError" => answer.status = 401
         /\ res.result # "ok" => ~answer.created /\ answer.status # 200
         /\ answer.status # 200 =>
              /\ ~answer.retPresent
              /\ answer.token \notin DOMAIN store
              /\ answer.token \notin clients
         /\ answer.status = 200 =>
              /\ res.result = "ok" /\ answer.created /\ answer.retPresent
              /\ answer.token \in DOMAIN store
              /\ store[answer.token].session_data = answer.session

(* C5 witness: api_login has answered 500 after login succeeded and create *)
(* stored the session (the course listing failed).                         *)
C5_Witness ==
    /\ Answered("api_login") /\ answer.status = 500
    /\ answer.created /\ answer.login.result = "ok"

(* C7: if the extraction of a course fails, api_extract_all still          *)
(* completes and its archive holds the files of every other course whose   *)
(* extraction succeeds, in the order of the course ids.                    *)
C7_ExtractAllBestEffort ==
    Answered("api_extract_all")
      /\ (\E i \in 1..Len(answer.outcomes) : answer.outcomes[i] # "ok") =>
         /\ answer.status = 200 /\ answer.archived
         /\ Len(answer.outcomes) = Len(answer.course_ids)
         /\ answer.archive = ArchiveOf(answer.course_ids, answer.outcomes)

(* C10: touch never makes an expired entry retrievable again: after the    *)
(* touch of _get_session_from_header found the entry past its expires_at,  *)
(* get of that token fails.                                                *)
C10_TouchNeverRevivesExpired ==
    \A r \in Requests :
       req[r].touchedExpired => get_result(store, req[r].token, now) # "ok"
(* ======================================================================= *)
(* extract_course_data: the roster page, the set of profile links, one     *)
(* fetch per link.  A link is a number, 0 the empty href; an anchor list   *)
(* may name a link twice.  What the site answers is chosen at each fetch.  *)
(* ======================================================================= *)
MaxLinks == 3
MaxAnchors == 4

Links == 1..MaxLinks
AnchorLists == UNION {[1..n -> 0..MaxLinks] : n \in 0..MaxAnchors}
(* what session.get does for the roster: raises, or a page *)
RosterAnswers == {"raises", "not200", "no_h1", "page"}
(* what session.get does for a profile: raises, or a page that is not 200, *)
(* lacks the card, lacks the h3 name, lacks the email anchor, or has all    *)
ProfileAnswers == {"raises", "not200", "no_card", "no_name", "no_email", "full"}

CrawlInit ==
    /\ crawl \in {[pc |-> "roster", roster |-> "none", anchors |-> a, profile_links |-> {}, todo |-> {},
                   fetches |-> [l \in Links |-> 0], answers |-> [l \in Links |-> "none"],
                   users |-> <<>>, result |-> "none"] : a \in AnchorLists}
    /\ store = <<>> /\ now = 0 /\ issued = 0 /\ ghost = <<>> /\ lastOp = <<>>
    /\ lk = 0 /\ th = <<>> /\ req = <<>> /\ clients = {} /\ answer = <<>> /\ dc = <<>>

notCrawlVars == <<store, now, issued, ghost, lastOp, lk, th, req, clients, answer, dc>>

(* profile_links = {a["href"] for a in soup.find_all(...) if a["href"]} *)
profile_links(anchors) == {anchors[i] : i \in DOMAIN anchors} \ {0}

(* response = session.get(full_list_url); status and h1 checks; the links *)
fetch_roster ==
    /\ crawl.pc = "roster"
    /\ \E a \in RosterAnswers :
         crawl' = CASE a = "raises" ->
                         [crawl EXCEPT !.pc = "done", !.roster = a, !.result = "Exception"]
                    [] a \in {"not200", "no_h1"} ->
                         [crawl EXCEPT !.pc = "done", !.roster = a,
                                       !.result = "CourseExtractionError"]
                    [] OTHER -> [crawl EXCEPT !.pc = "profiles", !.roster = a,
                                              !.profile_links = profile_links(crawl.anchors),
                                              !.todo = profile_links(crawl.anchors)]
    /\ UNCHANGED notCrawlVars

(* one turn of "for profile_url in profile_links" (a set: any order) *)
fetch_profile ==
    /\ crawl.pc = "profiles"
    /\ \E l \in crawl.todo, a \in ProfileAnswers :
         LET c == [crawl EXCEPT !.todo = @ \ {l}, !.fetches[l] = @ + 1, !.answers[l] = a]
         IN crawl' = CASE a = "raises" -> [c EXCEPT !.pc = "done", !.result = "Exception"]
                       [] a = "full" -> [c EXCEPT !.users = Append(@, l)]
                       [] OTHER -> c
    /\ UNCHANGED notCrawlVars

(* return CourseData(...) *)
return_course ==
    /\ crawl.pc = "profiles"
    /\ crawl.todo = {}
    /\ crawl' = [crawl EXCEPT !.pc = "done", !.result = "ok"]
    /\ UNCHANGED notCrawlVars

CrawlNext == fetch_roster \/ fetch_profile \/ return_course

SpecCrawl == CrawlInit /\ [][CrawlNext]_vars

Range(f) == {f[i] : i \in DOMAIN f}

(* C6: once the roster page has loaded with status 200 and a heading, the  *)
(* crawl ends with a CourseData, has fetched every distinct profile link   *)
(* exactly once, and has exactly one record for each link whose page was   *)
(* complete and none for any other: no failing profile aborts the crawl.   *)
C6_RosterBestEffortDeduplicated ==
    crawl.pc = "done" /\ crawl.roster = "page" =>
       /\ crawl.result = "ok"
       /\ \A l \in Links : crawl.fetches[l] = IF l \in crawl.profile_links THEN 1 ELSE 0
       /\ Range(crawl.users) = {l \in crawl.profile_links : crawl.answers[l] = "full"}
       /\ Len(crawl.users) = Cardinality(Range(crawl.users))
(* ======================================================================= *)
(* _derive_course_code.  A title is a sequence of symbols: "S" is one of   *)
(* the words Spring, Fall, Summer; "a" a letter, "2" a digit, " " a space, *)
(* "\t" other whitespace, ":" "/" "_" themselves, "!" any other character. *)
(* ======================================================================= *)
MaxTail == 3

Alphabet == {"S", "a", "2", " ", "\t", ":", "/", "_", "!"}
IsSpace(c) == c \in {" ", "\t"}
IsDigit(c) == c = "2"
IsAlnum(c) == c \in {"S", "a", "2"}

Term == <<"S", " ">>
Prefixes == {<<>>,
             Term \o <<"2", " ">>,
             Term \o <<"2", "2", " ">>,
             Term \o <<"2", "2", "2", "2", " ">>,
             Term \o <<"2", "2", "2", "2", " ", "a", " ">>,
             Term \o <<"2", "2", "2", "2", "2", " ">>,
             <<"a">> \o Term \o <<"2", "2", " ">>,
             <<"S", "\t", "2", "2", "2", "\t">>,
             <<"S", "2", "2", " ">>}
Tails == UNION {[1..n -> Alphabet] : n \in 0..MaxTail}
Titles == {p \o t : p \in Prefixes, t \in Tails}

(* (Spring|Fall|Summer)\s\d{2,4}\s([^:]+) matched at position i with a    *)
(* year of k digits: the group then starts at i + k + 3                   *)
MatchAt(s, i, k) ==
    /\ i + k + 3 <= Len(s)
    /\ s[i] = "S"
    /\ IsSpace(s[i + 1])
    /\ \A j \in 1..k : IsDigit(s[i + 1 + j])
    /\ IsSpace(s[i + k + 2])
    /\ s[i + k + 3] # ":"

Matches(s) == {<<i, k>> \in (1..Len(s)) \X (2..4) : MatchAt(s, i, k)}

(* re.search: the leftmost match; group(2) runs to the first colon or the end *)
search(s) ==
    IF Matches(s) = {} THEN <<>>
    ELSE LET m == CHOOSE m \in Matches(s) : \A o \in Matches(s) : m[1] <= o[1]
             g == m[1] + m[2] + 3
             colons == {j \in g..Len(s) : s[j] = ":"}
             e == IF colons = {} THEN Len(s)
                  ELSE (CHOOSE j \in colons : \A o \in colons : j <= o) - 1
         IN <<SubSeq(s, g, e)>>

(* str.strip(): whitespace off both ends *)
RECURSIVE lstrip(_, _)
lstrip(s, drop) ==
    IF s # <<>> /\ s[1] \in drop THEN lstrip(Tail(s), drop) ELSE s

RECURSIVE rstrip(_, _)
rstrip(s, drop) ==
    IF s # <<>> /\ s[Len(s)] \in drop THEN rstrip(SubSeq(s, 1, Len(s) - 1), drop) ELSE s

strip(s, drop) == rstrip(lstrip(s, drop), drop)

(* str.replace(old, "_") for a one-character old *)
replace(s, old) == [i \in DOMAIN s |-> IF s[i] = old THEN "_" ELSE s[i]]

(* re.sub(r"[^A-Za-z0-9]+", "_", s): each run of other characters becomes one "_" *)
RECURSIVE sub(_)
sub(s) ==
    IF s = <<>> THEN <<>>
    ELSE IF IsAlnum(s[1]) THEN <<s[1]>> \o sub(Tail(s))
    ELSE IF Len(s) > 1 /\ ~IsAlnum(s[2]) THEN sub(Tail(s))
    ELSE <<"_">> \o sub(Tail(s))

(* the code without its .replace("/", "_") *)
slash_kept(s) == s

slash_to_underscore(s) == replace(s, "/")

_derive_course_code(course_name) ==
    LET fallback == strip(sub(course_name), {"_"})
        match == search(course_name)
        course_code == IF match = <<>> THEN <<>>
                       ELSE slash_to_underscore(replace(strip(match[1], {" ", "\t"}), " "))
    IN IF course_code # <<>> THEN course_code
       ELSE IF fallback # <<>> THEN fallback
       ELSE <<"c", "o", "u", "r", "s", "e">>

CodeInit ==
    /\ dc \in {[pc |-> "call", course_name |-> t, course_code |-> <<>>] : t \in Titles}
    /\ store = <<>> /\ now = 0 /\ issued = 0 /\ ghost = <<>> /\ lastOp = <<>>
    /\ lk = 0 /\ th = <<>> /\ req = <<>> /\ clients = {} /\ answer = <<>> /\ crawl = <<>>

derive_course_code ==
    /\ dc.pc = "call"
    /\ dc' = [dc EXCEPT !.pc = "done", !.course_code = _derive_course_code(dc.course_name)]
    /\ UNCHANGED <<store, now, issued, ghost, lastOp, lk, th, req, clients, answer, crawl>>

CodeNext == derive_course_code

SpecCode == CodeInit /\ [][CodeNext]_vars
Subject(title) ==
    IF search(title) = <<>> THEN <<>> ELSE strip(search(title)[1], {" ", "\t"})

Underscores(s) == {i \in DOMAIN s : s[i] = "_"}

(* the places of a title where a run of other characters lies between two *)
(* letters or digits                                                      *)
InnerRuns(s) ==
    {i \in 2..Len(s) : /\ IsAlnum(s[i]) /\ ~IsAlnum(s[i - 1])
                       /\ \E j \in 1..(i - 1) : IsAlnum(s[j])}

(* C8: the code of every title is non-empty and holds no "/".  When the    *)
(* title has the form <term> <2-4 digit year> <subject>, the code is the   *)
(* subject up to the first colon, each space and slash an underscore;      *)
(* otherwise it is the title's letters and digits, each run of other       *)
(* characters between them one underscore, none at the ends; and it is     *)
(* "course" when the title has no letter or digit.                         *)
C8_CourseCodeIsSafe ==
    dc.pc = "done" =>
       LET t == dc.course_name
           c == dc.course_code
           subj == Subject(t)
       IN /\ c # <<>>
          /\ \A i \in DOMAIN c : c[i] # "/"
          /\ IF subj # <<>>
             THEN /\ Len(c) = Len(subj)
                  /\ \A i \in DOMAIN c :
                        c[i] = IF subj[i] \in {" ", "/"} THEN "_" ELSE subj[i]
             ELSE IF \E i \in DOMAIN t : IsAlnum(t[i])
             THEN /\ \A i \in DOMAIN c : IsAlnum(c[i]) \/ c[i] = "_"
                  /\ c[1] # "_" /\ c[Len(c)] # "_"
                  /\ \A i \in 1..(Len(c) - 1) : ~(c[i] = "_" /\ c[i + 1] = "_")
                  /\ SelectSeq(c, IsAlnum) = SelectSeq(t, IsAlnum)
                  /\ Cardinality(Underscores(c)) = Cardinality(InnerRuns(t))
             ELSE c = <<"c", "o", "u", "r", "s", "e">>

(* a derived code whose title has a subject with a slash and a space in it, *)
(* cut at a colon                                                           *)
C8_Witness ==
    /\ dc.pc = "done"
    /\ "/" \in Range(Subject(dc.course_name))
    /\ " " \in Range(Subject(dc.course_name))
    /\ ":" \in Range(dc.course_name)
====
